---------------------------- MODULE Spec2Model ----------------------------
(***************************************************************************)
(* Model of the crawl / index / retrieve / answer pipeline of              *)
(* src/app.py and src/rag_llm.py.                                          *)
(*                                                                         *)
(* Python values are modelled as follows.                                  *)
(*   dict             a TLA+ record; "key in d" is key \in DOMAIN d        *)
(*   list             a sequence; Python position p is element p + 1       *)
(*   None             the record None                                      *)
(*   str              a sequence of tokens (see the token alphabets)       *)
(*   float            a fixed-point integer (similarities in hundredths)   *)
(*   raise            a result record whose kind is "raise"                *)
(***************************************************************************)
EXTENDS Integers, Sequences, FiniteSets, TLC

\* ------------------------------------------------------------------ bounds
MaxPages == 2         \* pages in one scraped batch
MaxCrawls == 2        \* crawl submissions in one UI session
MaxQueries == 2       \* questions asked in one UI session
MaxVecs == 3          \* vectors of an index given to retrieve_and_rerank directly
MaxK == 4             \* largest k given to retrieve_and_rerank directly
MaxTopN == 3          \* largest top_n given to retrieve_and_rerank directly
MaxDocs == 2          \* retrieved documents given to query_llm directly
MaxRobotsLines == 2   \* lines of a robots.txt body
MaxSitemaps == 3      \* sitemap URLs given to fetch_sitemap_links

\* ------------------------------------------------------- program constants
MaxRetries == 3       \* range(3) of both retry loops
AppK == 5             \* k of the UI's retrieve_and_rerank call
AppTopN == 3          \* top_n of the UI's call
AppMinSimilarity == 10  \* min_similarity = 0.1 of the UI's call, in hundredths
LinkCap == 25         \* [:25] of fetch_sitemap_links
PromptContentLimit == 500  \* top_doc['content'][:500]
SimScale == 100       \* similarities are kept in hundredths
F32Digits == 24       \* significand bits of numpy float32

\* ----------------------------------------------------------------- Python
None == [none |-> TRUE]
IsNone(x) == "none" \in DOMAIN x

Min(a, b) == IF a < b THEN a ELSE b
Max(a, b) == IF a > b THEN a ELSE b
Abs(x) == IF x < 0 THEN -x ELSE x

RECURSIVE Pow2(_)
Pow2(n) == IF n = 0 THEN 1 ELSE 2 * Pow2(n - 1)

\* s[:n] for any integer n (a negative n counts from the end).
PyPrefix(s, n) ==
  IF n >= 0 THEN SubSeq(s, 1, Min(n, Len(s)))
  ELSE SubSeq(s, 1, Max(0, Len(s) + n))

\* s.endswith(t) and s.startswith(t)
EndsWith(s, t) ==
  /\ Len(t) <= Len(s)
  /\ SubSeq(s, Len(s) - Len(t) + 1, Len(s)) = t

StartsWith(s, t) ==
  /\ Len(t) <= Len(s)
  /\ SubSeq(s, 1, Len(t)) = t

\* --------------------------------------------------------------- numerics
\* numpy's astype('float32') / dtype='float32' on a fixed-point integer:
\* round to a 24-bit significand, ties to even.
RECURSIVE Ulp(_, _)
Ulp(x, u) == IF x < Pow2(F32Digits) * u THEN u ELSE Ulp(x, 2 * u)

F32(x) ==
  LET a == Abs(x)
      u == Ulp(a, 1)
      q == a \div u
      r == a % u
      up == \/ 2 * r > u
            \/ 2 * r = u /\ q % 2 = 1
      m == (IF up THEN q + 1 ELSE q) * u
  IN IF x < 0 THEN -m ELSE m

F32Vec(v) == [i \in DOMAIN v |-> F32(v[i])]

Dot(a, b) == a[1] * b[1] + a[2] * b[2]

\* IndexFlatL2's metric: the squared Euclidean distance.
L2(a, b) == Dot([i \in 1..2 |-> a[i] - b[i]], [i \in 1..2 |-> a[i] - b[i]])

\* The integer square root of n, between lo and hi.
RECURSIVE ISqrtIn(_, _, _)
ISqrtIn(n, lo, hi) ==
  IF lo >= hi THEN lo
  ELSE LET mid == (lo + hi + 1) \div 2
       IN IF mid * mid <= n THEN ISqrtIn(n, mid, hi) ELSE ISqrtIn(n, lo, mid - 1)

\* d / sqrt(nn) in hundredths, rounded down (nn is positive).
ScaledRatio(d, nn, mag) ==
  IF d >= 0 THEN mag
  ELSE IF mag * mag * nn = SimScale * SimScale * d * d THEN -mag ELSE -(mag + 1)

\* sklearn's cosine_similarity of two rows, in hundredths rounded down.  A
\* row of norm zero is left as it is by the normalisation, so it scores 0.
CosineOf(d, nn) ==
  IF nn = 0 THEN 0
  ELSE ScaledRatio(d, nn, ISqrtIn((SimScale * SimScale * d * d) \div nn, 0, SimScale))

CosineSimilarity(a, b) == CosineOf(Dot(a, b), Dot(a, a) * Dot(b, b))

\* ------------------------------------------------------------ data domains
\* What the embedding model can answer: two-dimensional vectors whose
\* components are exactly representable in single precision.
EmbeddingSpace == {<<1, 0>>, <<1, 1>>}

\* An answer with a component that single precision cannot hold: it needs
\* one more significand bit than float32 has.
WideEmbedding == <<Pow2(F32Digits) + 1, 0>>

\* Page content is a sequence of paragraphs; paragraph 0 is whitespace only.
\* A chunk is a string of one paragraph.
OkRecord(u, c) == [url |-> u, title |-> "t", description |-> "d", content |-> c]
ErrRecord(u) == [url |-> u, error |-> "e"]

\* What scrape_page can return for the pages of a crawl.
PageRecords ==
  {OkRecord("u1", <<1, 2>>), OkRecord("u2", <<0>>), OkRecord("u2", <<>>),
   ErrRecord("u1")}

RECURSIVE SeqsUpTo(_, _)
SeqsUpTo(S, n) ==
  IF n = 0 THEN {<<>>}
  ELSE LET shorter == SeqsUpTo(S, n - 1)
       IN shorter \cup {Append(s, x) : s \in {t \in shorter : Len(t) = n - 1}, x \in S}

\* scrape_pages appends one record per link, so a batch is never empty.
Batches == SeqsUpTo(PageRecords, MaxPages) \ {<<>>}

\* ---------------------------------------------------------------- chunking
\* A splitter that keeps the blank pieces: the variant of chunk_text that
\* property C6 must tell from it.
chunk_text_keeping_blanks(content) == [i \in DOMAIN content |-> <<content[i]>>]

\* RecursiveCharacterTextSplitter.split_text: the non-blank pieces in order.
chunk_text(content) ==
  LET kept == SelectSeq(content, LAMBDA p : p # 0)
  IN [i \in 1..Len(kept) |-> <<kept[i]>>]

\* data.get('content'): None when the key is absent.
GetContent(data) == IF "content" \in DOMAIN data THEN data.content ELSE <<>>

\* 'error' not in data and data.get('content')
Indexable(data) == "error" \notin DOMAIN data /\ GetContent(data) # <<>>

MetadataEntry(data, chunk, embedding) ==
  [url |-> data.url, title |-> data.title, description |-> data.description,
   content |-> chunk, embedding |-> embedding]

\* The (record, chunk) position of the next get_embeddings call of the two
\* nested loops at or after record ri, chunk ci; ri = Len + 1 when the loops
\* are over.
RECURSIVE NextChunkPos(_, _, _)
NextChunkPos(sd, ri, ci) ==
  IF ri > Len(sd) THEN [ri |-> ri, ci |-> 1]
  ELSE IF Indexable(sd[ri]) /\ ci <= Len(chunk_text(sd[ri].content))
       THEN [ri |-> ri, ci |-> ci]
  ELSE NextChunkPos(sd, ri + 1, 1)

\* faiss.IndexFlatL2(d) after index.add(np.array(embeddings, dtype='float32'))
BuildIndex(embeddings_list) ==
  [d |-> 2, xb |-> [i \in DOMAIN embeddings_list |-> F32Vec(embeddings_list[i])]]

\* ---------------------------------------------------------------- retrieval
RECURSIVE Arrangements(_, _)
Arrangements(S, m) ==
  IF m = 0 THEN {<<>>}
  ELSE UNION {{<<x>> \o t : t \in Arrangements(S \ {x}, m - 1)} : x \in S}

\* The arrangements of m of the n positions by increasing distance that leave
\* out no nearer position; dist[p + 1] is the distance of position p.
Nearest(n, m, dist) ==
  {a \in Arrangements(0..(n - 1), m) :
     /\ \A i \in 1..(m - 1) : dist[a[i] + 1] <= dist[a[i + 1] + 1]
     /\ \A p \in 0..(n - 1) :
          (\A i \in 1..m : a[i] # p) => \A i \in 1..m : dist[a[i] + 1] <= dist[p + 1]}

\* index.search(q, k)[1][0]: the positions of the min(k, ntotal) nearest
\* vectors by increasing distance (the order among equal distances is the
\* library's), then -1 up to length k.
SearchResults(index, q, k) ==
  LET n == Len(index.xb)
      m == Min(k, n)
  IN {a \o [i \in 1..(k - m) |-> -1] :
        a \in Nearest(n, m, [i \in 1..n |-> L2(q, index.xb[i])])}

\* [metadata[i] for i in indices[0] if i < len(metadata)]: the list positions
\* read, in order.  A negative i that passes the test reads from the end.
KeptPositions(indices, len) == SelectSeq(indices, LAMBDA i : i < len)

CandidateRaises(indices, len) ==
  \E j \in DOMAIN KeptPositions(indices, len) : KeptPositions(indices, len)[j] < -len

PyResolve(i, len) == IF i >= 0 THEN i ELSE len + i

RetrievedDocs(indices, len) ==
  LET kept == KeptPositions(indices, len)
  IN [j \in DOMAIN kept |-> PyResolve(kept[j], len)]

\* doc['similarity'] = similarities[i] for every retrieved doc: the docs are
\* the metadata list's own dicts.
AttachSimilarity(metadata, docs, q) ==
  [p1 \in DOMAIN metadata |->
     IF \E j \in DOMAIN docs : docs[j] + 1 = p1
     THEN ("similarity" :> CosineSimilarity(q, metadata[p1].embedding)) @@ metadata[p1]
     ELSE metadata[p1]]

\* sorted(docs, key=similarity, reverse=True): stable, so equal keys keep
\* their order.  Insertion puts x before the first element of smaller key.
\* key is a function from the elements to their sort keys.
InsertBefore(sorted, x, smaller) ==
  IF smaller = {} THEN Append(sorted, x)
  ELSE LET at == CHOOSE i \in smaller : \A j \in smaller : i <= j
       IN SubSeq(sorted, 1, at - 1) \o <<x>> \o SubSeq(sorted, at, Len(sorted))

\* An unstable insertion, x before the elements of equal key: the variant of
\* InsertDescending that property C1 must tell from it.
InsertDescendingBeforeEqual(sorted, x, key) ==
  InsertBefore(sorted, x, {i \in DOMAIN sorted : key[sorted[i]] <= key[x]})

InsertDescending(sorted, x, key) ==
  InsertBefore(sorted, x, {i \in DOMAIN sorted : key[sorted[i]] < key[x]})

RECURSIVE SortedReverse(_, _)
SortedReverse(s, key) ==
  IF s = <<>> THEN <<>>
  ELSE InsertDescending(SortedReverse(SubSeq(s, 1, Len(s) - 1), key), s[Len(s)], key)

\* Lines 105-108: the filter, the sort and the slice; sim[p] is the score
\* attached to metadata position p.
FilterSortSlice(docs, sim, top_n, min_similarity) ==
  PyPrefix(SortedReverse(SelectSeq(docs, LAMBDA p : sim[p] >= min_similarity), sim),
           top_n)

Scored(docs, after, top_n, min_similarity) ==
  [kind |-> "return",
   docs |-> FilterSortSlice(docs,
                            [p \in {docs[j] : j \in DOMAIN docs} |-> after[p + 1].similarity],
                            top_n, min_similarity),
   metadata |-> after]

RerankDocs(metadata, q, docs, top_n, min_similarity) ==
  IF docs = <<>>
  THEN [kind |-> "return", docs |-> <<>>, metadata |-> metadata]
  ELSE Scored(docs, AttachSimilarity(metadata, docs, q), top_n, min_similarity)

\* Lines 86-108 of retrieve_and_rerank once the query is embedded (q) and the
\* search has answered (indices).  Returns what the call returns or raises
\* and the metadata list as the call leaves it; docs are positions of the
\* metadata list.
Rerank(metadata, q, indices, top_n, min_similarity) ==
  IF CandidateRaises(indices, Len(metadata))
  THEN [kind |-> "raise", docs |-> <<>>, metadata |-> metadata]
  ELSE RerankDocs(metadata, q, RetrievedDocs(indices, Len(metadata)), top_n,
                  min_similarity)

\* --------------------------------------------------------------- answering
Questions == {"q1"}

\* What invoke_model on the generative model can do: raise, or answer a body
\* whose output.message.content is a list holding a text, a list holding a
\* dict without text, an empty list, not a list, or absent.
LlmAnswers ==
  {[kind |-> "error"], [kind |-> "text", text |-> "g1"], [kind |-> "no_text"],
   [kind |-> "empty_list"], [kind |-> "not_list"], [kind |-> "absent"]}

\* The try body of query_llm raises: the call itself, or llm_output[0] on [].
LlmAttemptFails(answer) == answer.kind \in {"error", "empty_list"}

llm_response(answer) == IF answer.kind = "text" THEN answer.text ELSE "No response"

NoRelevantInformation == [text |-> "No relevant information found."]

\* A prompt built from the last retrieved document: the variant of
\* formatted_prompt that property C10 must tell from it.
formatted_prompt_from_last(query_text, retrieved_docs) ==
  LET doc == retrieved_docs[Len(retrieved_docs)]
  IN [query |-> query_text, url |-> doc.url, title |-> doc.title,
      description |-> doc.description,
      content |-> PyPrefix(doc.content, PromptContentLimit)]

formatted_prompt(query_text, retrieved_docs) ==
  LET top_doc == retrieved_docs[1]
  IN [query |-> query_text, url |-> top_doc.url, title |-> top_doc.title,
      description |-> top_doc.description,
      content |-> PyPrefix(top_doc.content, PromptContentLimit)]

\* query_llm up to its retry loop.
QueryLlmEntry(retrieved_docs) ==
  IF retrieved_docs = <<>>
  THEN [status |-> "returned", calls |-> 0, last |-> None, requests |-> <<>>,
        out |-> NoRelevantInformation]
  ELSE [status |-> "running", calls |-> 0, last |-> None, requests |-> <<>>,
        out |-> None]

\* ------------------------------------------------------------- persistence
RowKeys == {"url", "title", "description", "content"}

\* The INSERT loop of save_to_postgres on an open transaction: rows after
\* the loop, or None when data[...] raises KeyError.
RECURSIVE InsertAll(_, _)
InsertAll(rows, scraped_data) ==
  IF scraped_data = <<>> THEN [rows |-> rows]
  ELSE LET data == Head(scraped_data)
           row == [k \in RowKeys |-> data[k]]
       IN IF ~(RowKeys \subseteq DOMAIN data) THEN None
          ELSE IF \E r \in rows : r.url = data.url
               THEN InsertAll(rows, Tail(scraped_data))
          ELSE InsertAll(rows \cup {row}, Tail(scraped_data))

\* save_to_postgres: the table as committed afterwards.  Nothing is committed
\* when connecting fails or the loop raises.
save_to_postgres(table, scraped_data, dbUp) ==
  LET done == InsertAll(table.rows, scraped_data)
  IN IF ~dbUp \/ IsNone(done) THEN table
     ELSE [exists |-> TRUE, rows |-> done.rows]

\* ----------------------------------------------------------------- strings
Whitespace == {" ", "\n"}

\* str.lower(), token by token.
LowerToken(t) ==
  CASE t = "Sitemap" -> "sitemap"
    [] t = "SITEMAP" -> "sitemap"
    [] t = ".XML" -> ".xml"
    [] t = ".GZ" -> ".gz"
    [] OTHER -> t

Lower(s) == [i \in DOMAIN s |-> LowerToken(s[i])]

RECURSIVE LStrip(_)
LStrip(s) == IF s # <<>> /\ Head(s) \in Whitespace THEN LStrip(Tail(s)) ELSE s

RECURSIVE RStrip(_)
RStrip(s) ==
  IF s # <<>> /\ s[Len(s)] \in Whitespace THEN RStrip(SubSeq(s, 1, Len(s) - 1)) ELSE s

\* str.strip()
Strip(s) == RStrip(LStrip(s))

\* str.split(sep): the pieces between the occurrences of sep, left to right;
\* piece is the piece being read.
RECURSIVE SplitFrom(_, _, _)
SplitFrom(s, sep, piece) ==
  IF s = <<>> THEN <<piece>>
  ELSE IF StartsWith(s, sep)
       THEN <<piece>> \o SplitFrom(SubSeq(s, Len(sep) + 1, Len(s)), sep, <<>>)
  ELSE SplitFrom(Tail(s), sep, Append(piece, Head(s)))

Split(s, sep) == SplitFrom(s, sep, <<>>)

\* "\n".join(lines): the text of a robots.txt of these lines.
RECURSIVE JoinLines(_)
JoinLines(lines) ==
  IF lines = <<>> THEN <<>>
  ELSE IF Len(lines) = 1 THEN lines[1]
  ELSE lines[1] \o <<"\n">> \o JoinLines(Tail(lines))

GzSuffix == <<".xml", ".gz">>

\* ---------------------------------------------------------------- resolver
\* urlparse(url): scheme and netloc.
SiteUrls == {[scheme |-> "https", netloc |-> "h"]}

\* f"{parsed_url.scheme}://{parsed_url.netloc}/sitemap.xml"
DefaultSitemap(url) == <<url.scheme, ":", "//", url.netloc, "/sitemap", ".xml">>

\* Lines a robots.txt can hold.
RobotsLines ==
  {<<"User-agent", ":", " ", "*">>,
   <<"Sitemap", ":", " ", "https", ":", "//", "h", "/a", ".xml">>,
   <<"sitemap", ":", " ", "https", ":", "//", "h", "/b", ".xml", " ">>,
   <<"Sitemap", ":", " ", "https", ":", "//", "h", "/c", ".xml", ".gz">>,
   <<"SITEMAP", ":", " ", "https", ":", "//", "h", "/d", ".XML", ".GZ", " ">>,
   <<"Sitemap", ":", "https", ":", "//", "h", "/e", ".xml">>,
   <<"Sitemap", ":", " ">>,
   <<>>}

\* What requests.get(robots_url) with raise_for_status can do.
RobotsResponses ==
  {[kind |-> "request_error"]}
    \cup {[kind |-> "ok", text |-> JoinLines(lines)] :
            lines \in SeqsUpTo(RobotsLines, MaxRobotsLines)}

\* The condition of the comprehension (line 75).
IsSitemapLine(line) ==
  /\ StartsWith(Lower(line), <<"sitemap", ":">>)
  /\ ~EndsWith(Lower(Strip(line)), GzSuffix)

\* line.split(": ")[1] raises IndexError on a line without ": ".
SplitRaises(line) == Len(Split(line, <<":", " ">>)) < 2

\* line.split(": ")[1].strip()
SitemapLineUrl(line) == Strip(Split(line, <<":", " ">>)[2])

\* The comprehension of lines 74-75 when no element raises.
sitemap_urls(lines) ==
  LET kept == SelectSeq(lines, IsSitemapLine)
  IN [i \in DOMAIN kept |-> SitemapLineUrl(kept[i])]

\* Lines 71-83 on a fetched robots.txt.
ParseRobots(url, lines) ==
  IF \E i \in DOMAIN lines : IsSitemapLine(lines[i]) /\ SplitRaises(lines[i])
  THEN [kind |-> "raise", value |-> <<>>]
  ELSE IF sitemap_urls(lines) # <<>>
       THEN [kind |-> "return", value |-> sitemap_urls(lines)]
  ELSE [kind |-> "return", value |-> <<DefaultSitemap(url)>>]

\* fetch_sitemap_from_robots: only RequestException is caught (line 85).
fetch_sitemap_from_robots(url, response) ==
  IF response.kind = "request_error"
  THEN [kind |-> "return", value |-> <<DefaultSitemap(url)>>]
  ELSE ParseRobots(url, Split(response.text, <<"\n">>))

\* ----------------------------------------------------------------- sitemaps
DigitToken == <<"0", "1", "2", "3", "4", "5", "6", "7", "8", "9">>

\* The text of the i-th page link.
PageLink(i) == <<"/p", DigitToken[(i \div 10) + 1], DigitToken[(i % 10) + 1]>>

LocElem(text) == [tag |-> "loc", text |-> text]

\* What fetching one sitemap can give: a request failure, a body that is not
\* XML, or a tree with its <loc> elements: two links, a link and an archive,
\* an element without text, more links than the cap.
SitemapResponses ==
  {[kind |-> "request_error"],
   [kind |-> "bad_xml"],
   [kind |-> "ok", locs |-> <<LocElem(PageLink(1)), LocElem(PageLink(2))>>],
   [kind |-> "ok", locs |-> <<LocElem(PageLink(3) \o GzSuffix), LocElem(PageLink(4))>>],
   [kind |-> "ok", locs |-> <<LocElem(PageLink(5)), [tag |-> "loc"]>>],
   [kind |-> "ok", locs |-> [i \in 1..(LinkCap + 1) |-> LocElem(PageLink(10 + i))]]}

\* ET.fromstring raises ParseError; elem.text.endswith raises AttributeError
\* when elem.text is None.  Neither is a RequestException.
SitemapRaises(response) ==
  \/ response.kind = "bad_xml"
  \/ /\ response.kind = "ok"
     /\ \E i \in DOMAIN response.locs : "text" \notin DOMAIN response.locs[i]

\* The comprehension and slice of line 100.
SitemapLinks(response) ==
  LET kept == SelectSeq(response.locs, LAMBDA elem : ~EndsWith(elem.text, GzSuffix))
  IN PyPrefix([i \in DOMAIN kept |-> kept[i].text], LinkCap)

\* The loop of lines 93-103 over the responses left, from all_links.
RECURSIVE ExtendAll(_, _)
ExtendAll(all_links, responses) ==
  IF responses = <<>> THEN [kind |-> "return", value |-> all_links]
  ELSE IF Head(responses).kind = "request_error"
       THEN ExtendAll(all_links, Tail(responses))
  ELSE IF SitemapRaises(Head(responses)) THEN [kind |-> "raise", value |-> <<>>]
  ELSE ExtendAll(all_links \o SitemapLinks(Head(responses)), Tail(responses))

\* fetch_sitemap_links on sitemap URLs whose fetches answer responses.
fetch_sitemap_links(responses) == ExtendAll(<<>>, responses)

\* ------------------------------------------------------------------- state
VARIABLES
  scraped,          \* st.session_state.scraped
  index,            \* st.session_state.index
  metadata,         \* st.session_state.metadata
  table,            \* the domain's table in PostgreSQL
  faiss_file,       \* faiss_index.index on disk
  pc,               \* where the running call stands
  scraped_data,     \* argument of the running fetch_and_store_scraped_data
  pos,              \* its loop position: record ri, chunk ci
  embeddings_list,  \* its local
  metadata_list,    \* its local
  emb,              \* the running or last get_embeddings invocation
  call,             \* arguments of the running retrieve_and_rerank
  reranked,         \* what the last retrieve_and_rerank returned
  retrieved_docs,   \* argument of the running query_llm
  llm,              \* the running or last query_llm invocation
  hist,             \* history: crawls, queries, which crawl built what
  arg,              \* argument of a resolver function called directly
  ret               \* its result

sessionVars == <<scraped, index, metadata>>
storeVars == <<table, faiss_file>>
buildVars == <<scraped_data, pos, embeddings_list, metadata_list>>
queryVars == <<call, reranked, retrieved_docs, llm>>
fnVars == <<arg, ret>>
vars == <<scraped, index, metadata, table, faiss_file, pc, scraped_data, pos,
          embeddings_list, metadata_list, emb, call, reranked, retrieved_docs,
          llm, hist, arg, ret>>

EmbIdle == [status |-> "idle", answers |-> <<>>, value |-> <<>>]
EmbStart == [status |-> "running", answers |-> <<>>, value |-> <<>>]
LlmIdle == [status |-> "idle", calls |-> 0, last |-> None, requests |-> <<>>, out |-> None]
NoCall == [caller |-> "none", query_text |-> "", k |-> 0, top_n |-> 0, min_similarity |-> 0]
NoReranked == [kind |-> "none", docs |-> <<>>, q |-> <<>>, indices |-> <<>>]
NoPos == [ri |-> 0, ci |-> 0]
NoHist == [crawls |-> 0, queries |-> 0, indexCrawl |-> 0, fileCrawl |-> 0,
           build |-> "none"]

\* The state of a fresh UI session (app.py lines 156-163), nothing running.
Init ==
  /\ scraped = FALSE
  /\ index = None
  /\ metadata = <<>>
  /\ table = [exists |-> FALSE, rows |-> {}]
  /\ faiss_file = None
  /\ pc = "idle"
  /\ scraped_data = <<>>
  /\ pos = NoPos
  /\ embeddings_list = <<>>
  /\ metadata_list = <<>>
  /\ emb = EmbIdle
  /\ call = NoCall
  /\ reranked = NoReranked
  /\ retrieved_docs = <<>>
  /\ llm = LlmIdle
  /\ hist = NoHist
  /\ arg = None
  /\ ret = None

\* ---------------------------------------------------------------- the build
\* A call made directly rather than by the UI script keeps its result.
Direct == call.caller = "direct"

\* Lines 66-76 of fetch_and_store_scraped_data: what it returns.
FetchAndStoreReturn(embs, metas) ==
  IF embs = <<>>
  THEN [kind |-> "return", index |-> None, metadata |-> <<>>]
  ELSE [kind |-> "return", index |-> BuildIndex(embs), metadata |-> metas]

\* faiss.write_index (line 74) runs only when an index was built.
WriteIndex(r) == faiss_file' = IF IsNone(r.index) THEN faiss_file ELSE r.index

\* The end of the build inside the crawl handler, and the handler after it
\* (app.py lines 184-195); r is what the build returned.
HandlerTail(sd, r, dbUp, crawlNo) ==
  /\ WriteIndex(r)
  /\ index' = IF IsNone(r.index) THEN index ELSE r.index
  /\ metadata' = IF IsNone(r.index) THEN metadata ELSE r.metadata
  /\ table' = save_to_postgres(table, sd, dbUp)
  /\ scraped' = TRUE
  /\ pc' = "idle"
  /\ scraped_data' = <<>>
  /\ pos' = NoPos
  /\ embeddings_list' = <<>>
  /\ metadata_list' = <<>>
  /\ emb' = EmbIdle
  /\ hist' = [hist EXCEPT !.crawls = crawlNo,
                          !.build = IF IsNone(r.index) THEN "empty" ELSE "index",
                          !.indexCrawl = IF IsNone(r.index) THEN @ ELSE crawlNo,
                          !.fileCrawl = IF IsNone(r.index) THEN @ ELSE crawlNo]
  /\ UNCHANGED ret

\* The end of a build called directly.
DirectTail(r, lastEmb) ==
  /\ WriteIndex(r)
  /\ ret' = r
  /\ pc' = "returned"
  /\ pos' = NoPos
  /\ embeddings_list' = <<>>
  /\ metadata_list' = <<>>
  /\ emb' = lastEmb
  /\ UNCHANGED <<sessionVars, table, scraped_data, hist>>

\* The crawl handler (app.py lines 165-195) from a submitted URL whose
\* sitemaps gave links, up to the first get_embeddings call of the build.  A
\* batch with nothing to embed runs to the handler's end.  An invalid URL, or
\* one without links, leaves every variable as it is.
CrawlSubmit ==
  /\ pc = "idle"
  /\ hist.crawls < MaxCrawls
  /\ \E batch \in Batches :
       \E first \in {NextChunkPos(batch, 1, 1)} :
         IF first.ri > Len(batch)
         THEN \E dbUp \in BOOLEAN :
                HandlerTail(batch, FetchAndStoreReturn(<<>>, <<>>), dbUp, hist.crawls + 1)
         ELSE /\ pc' = "build"
              /\ scraped_data' = batch
              /\ pos' = first
              /\ embeddings_list' = <<>>
              /\ metadata_list' = <<>>
              /\ emb' = EmbStart
              /\ hist' = [hist EXCEPT !.crawls = @ + 1, !.build = "running"]
              /\ UNCHANGED <<sessionVars, storeVars, ret>>
  /\ call' = NoCall
  /\ reranked' = NoReranked
  /\ retrieved_docs' = <<>>
  /\ llm' = LlmIdle
  /\ UNCHANGED arg

\* fetch_and_store_scraped_data called directly, up to its first
\* get_embeddings call: line 43 on an empty list, line 66 when no record has
\* a chunk.
CallBuild ==
  /\ pc = "call_build"
  /\ \E first \in {NextChunkPos(scraped_data, 1, 1)} :
       IF scraped_data = <<>> \/ first.ri > Len(scraped_data)
       THEN DirectTail(FetchAndStoreReturn(<<>>, <<>>), EmbIdle)
       ELSE /\ pc' = "build"
            /\ pos' = first
            /\ emb' = EmbStart
            /\ UNCHANGED <<sessionVars, storeVars, scraped_data, embeddings_list,
                           metadata_list, hist, ret>>
  /\ UNCHANGED <<queryVars, arg>>

\* retrieve_and_rerank up to its get_embeddings call (lines 80-84).
RetrieveEntry(direct) ==
  IF IsNone(index)
  THEN /\ pc' = IF direct THEN "returned" ELSE "idle"
       /\ emb' = EmbIdle
       /\ reranked' = [NoReranked EXCEPT !.kind = "return"]
  ELSE /\ pc' = "qembed"
       /\ emb' = EmbStart
       /\ reranked' = NoReranked

\* The question widget (app.py lines 198-201).
AskQuestion ==
  /\ pc = "idle"
  /\ scraped /\ ~IsNone(index)
  /\ hist.queries < MaxQueries
  /\ \E question \in Questions :
       call' = [caller |-> "app", query_text |-> question, k |-> AppK,
                top_n |-> AppTopN, min_similarity |-> AppMinSimilarity]
  /\ RetrieveEntry(FALSE)
  /\ retrieved_docs' = <<>>
  /\ llm' = LlmIdle
  /\ hist' = [hist EXCEPT !.queries = @ + 1]
  /\ UNCHANGED <<sessionVars, storeVars, buildVars, fnVars>>

\* retrieve_and_rerank called directly.
CallRetrieve ==
  /\ pc = "call_retrieve"
  /\ RetrieveEntry(TRUE)
  /\ UNCHANGED <<sessionVars, storeVars, buildVars, call, retrieved_docs, llm,
                 hist, fnVars>>

\* The answers of the calls made so far by the invocation of get_embeddings
\* that is running: a vector, or <<>> for a call that raised.
Answers == IF emb.status = "running" THEN emb.answers ELSE <<>>

\* get_embeddings raises (line 30) through its caller: the build, and with it
\* the crawl handler, or retrieve_and_rerank, and with it the question run.
EmbedRaise ==
  IF pc = "build"
  THEN /\ pc' = IF Direct THEN "returned" ELSE "idle"
       /\ scraped_data' = IF Direct THEN scraped_data ELSE <<>>
       /\ pos' = NoPos
       /\ embeddings_list' = <<>>
       /\ metadata_list' = <<>>
       /\ hist' = IF Direct THEN hist ELSE [hist EXCEPT !.build = "raised"]
       /\ ret' = IF Direct THEN [kind |-> "raise"] ELSE ret
       /\ UNCHANGED queryVars
  ELSE /\ pc' = IF Direct THEN "returned" ELSE "idle"
       /\ call' = IF Direct THEN call ELSE NoCall
       /\ reranked' = IF Direct THEN [NoReranked EXCEPT !.kind = "raise"]
                      ELSE NoReranked
       /\ UNCHANGED <<buildVars, retrieved_docs, llm, hist, ret>>

\* A loop of one more iteration: the variant of Exhausted that property C5
\* must tell from it.
ExhaustedOneLater(answers) == Len(answers) > MaxRetries

\* for _ in range(3) is over after the call that gave the last of answers.
Exhausted(answers) == Len(answers) >= MaxRetries

\* One invoke_model call of get_embeddings raises (lines 27-29); after the
\* last of the loop's iterations the function raises.
EmbedFail ==
  /\ pc \in {"build", "qembed"}
  /\ \E answers \in {Append(Answers, <<>>)} :
       IF Exhausted(answers)
       THEN /\ emb' = [status |-> "raised", answers |-> answers, value |-> <<>>]
            /\ EmbedRaise
       ELSE /\ emb' = [status |-> "running", answers |-> answers, value |-> <<>>]
            /\ UNCHANGED <<pc, buildVars, queryVars, hist, ret>>
  /\ UNCHANGED <<sessionVars, storeVars, arg>>

\* What the embedding model can answer to the build.  In the UI session the
\* vectors are those whose scores the model's integers can hold.
BuildAnswers == IF Direct THEN EmbeddingSpace \cup {WideEmbedding} ELSE EmbeddingSpace

\* One invoke_model call of get_embeddings answers (lines 21-26) inside the
\* build: the chunk's vector and metadata are appended (lines 56-64) and the
\* loops go on to the next call, or end and the build finishes.
EmbedOkBuild ==
  /\ pc = "build"
  /\ \E embedding \in BuildAnswers :
       \E returned \in {[status |-> "returned", answers |-> Append(Answers, embedding),
                         value |-> embedding]} :
         LET data == scraped_data[pos.ri]
             chunk == chunk_text(data.content)[pos.ci]
             embs == Append(embeddings_list, returned.value)
             metas == Append(metadata_list, MetadataEntry(data, chunk, returned.value))
             next == NextChunkPos(scraped_data, pos.ri, pos.ci + 1)
         IN IF next.ri <= Len(scraped_data)
            THEN /\ emb' = returned
                 /\ pos' = next
                 /\ embeddings_list' = embs
                 /\ metadata_list' = metas
                 /\ UNCHANGED <<sessionVars, storeVars, pc, scraped_data, hist, ret>>
            ELSE IF Direct
            THEN DirectTail(FetchAndStoreReturn(embs, metas), returned)
            ELSE \E dbUp \in BOOLEAN :
                   HandlerTail(scraped_data, FetchAndStoreReturn(embs, metas), dbUp,
                               hist.crawls)
  /\ UNCHANGED <<queryVars, arg>>

\* One invoke_model call of get_embeddings answers inside retrieve_and_rerank
\* (line 84): the search and the rerank (lines 85-108).  Called directly,
\* the call returns.  In the UI the first result goes to query_llm (app.py
\* lines 208-209), or the run ends without one (line 228); the run keeps
\* nothing of its calls but the session state.
EmbedOkQuery ==
  /\ pc = "qembed"
  /\ \E embedding \in EmbeddingSpace :
       \E q \in {F32Vec(embedding)} :
         \E indices \in SearchResults(index, q, call.k) :
           \E r \in {Rerank(metadata, q, indices, call.top_n, call.min_similarity)} :
             /\ metadata' = r.metadata
             /\ IF Direct
                THEN /\ pc' = "returned"
                     /\ emb' = [status |-> "returned",
                                answers |-> Append(Answers, embedding),
                                value |-> embedding]
                     /\ reranked' = [kind |-> r.kind, docs |-> r.docs, q |-> q,
                                     indices |-> indices]
                     /\ UNCHANGED <<call, retrieved_docs, llm>>
                ELSE /\ emb' = EmbIdle
                     /\ reranked' = NoReranked
                     /\ IF r.kind = "return" /\ r.docs # <<>>
                        THEN /\ pc' = "llm"
                             /\ retrieved_docs' = <<r.metadata[r.docs[1] + 1]>>
                             /\ llm' = QueryLlmEntry(<<r.metadata[r.docs[1] + 1]>>)
                             /\ UNCHANGED call
                        ELSE /\ pc' = "idle"
                             /\ call' = NoCall
                             /\ UNCHANGED <<retrieved_docs, llm>>
  /\ UNCHANGED <<scraped, index, storeVars, buildVars, hist, fnVars>>

\* query_llm called directly, up to its first invoke_model call (lines
\* 112-125).
CallQueryLlm ==
  /\ pc = "call_llm"
  /\ llm' = QueryLlmEntry(retrieved_docs)
  /\ pc' = IF retrieved_docs = <<>> THEN "returned" ELSE "llm"
  /\ UNCHANGED <<sessionVars, storeVars, buildVars, emb, call, reranked,
                 retrieved_docs, hist, fnVars>>

\* One invoke_model call of query_llm (lines 126-143): it answers and the
\* text is returned with the source, or the attempt fails; after the last of
\* the loop's iterations the function raises.  In the UI the run ends with
\* the answer shown or the exception reported.
LlmCall ==
  /\ pc = "llm"
  /\ llm.status = "running"
  /\ \E answer \in LlmAnswers :
       \E after \in {[status |-> IF ~LlmAttemptFails(answer) THEN "returned"
                                 ELSE IF llm.calls + 1 >= MaxRetries THEN "raised"
                                 ELSE "running",
                      calls |-> llm.calls + 1,
                      last |-> answer,
                      requests |-> Append(llm.requests,
                                          formatted_prompt(call.query_text, retrieved_docs)),
                      out |-> IF LlmAttemptFails(answer) THEN None
                              ELSE [text |-> llm_response(answer),
                                    source |-> retrieved_docs[1].url]]} :
         IF after.status = "running"
         THEN /\ llm' = after
              /\ UNCHANGED <<pc, call, retrieved_docs>>
         ELSE IF Direct
         THEN /\ llm' = after
              /\ pc' = "returned"
              /\ UNCHANGED <<call, retrieved_docs>>
         ELSE /\ llm' = LlmIdle
              /\ pc' = "idle"
              /\ call' = NoCall
              /\ retrieved_docs' = <<>>
  /\ UNCHANGED <<sessionVars, storeVars, buildVars, emb, reranked, hist, fnVars>>

\* The UI session: crawls and questions, one script run at a time.
Next == CrawlSubmit \/ AskQuestion \/ EmbedFail \/ EmbedOkBuild \/ EmbedOkQuery \/ LlmCall

Spec == Init /\ [][Next]_vars

\* ------------------------------------------------- functions called directly
\* fetch_sitemap_from_robots(url) when the fetch of robots.txt answers
\* arg.response.
CallRobots ==
  /\ pc = "call_robots"
  /\ ret' = fetch_sitemap_from_robots(arg.url, arg.response)
  /\ pc' = "returned"
  /\ UNCHANGED <<sessionVars, storeVars, buildVars, emb, queryVars, hist, arg>>

\* fetch_sitemap_links(sitemap_urls) when the fetches answer arg.responses.
CallSitemapLinks ==
  /\ pc = "call_sitemaps"
  /\ ret' = fetch_sitemap_links(arg.responses)
  /\ pc' = "returned"
  /\ UNCHANGED <<sessionVars, storeVars, buildVars, emb, queryVars, hist, arg>>

\* save_to_postgres(scraped_data, table_name); arg.before is the table as the
\* call found it.
CallSave ==
  /\ pc = "call_save"
  /\ table' = save_to_postgres(table, scraped_data, arg.dbUp)
  /\ pc' = "returned"
  /\ UNCHANGED <<sessionVars, faiss_file, buildVars, emb, queryVars, hist, fnVars>>

DirectCall == [NoCall EXCEPT !.caller = "direct"]

\* An index file left by an earlier build.
OldIndex == BuildIndex(<<<<1, 0>>>>)

\* What the build returns for vectors vs of one chunk each.
BuiltFrom(vs) ==
  FetchAndStoreReturn(vs, [i \in DOMAIN vs |->
                             MetadataEntry(OkRecord("u1", <<i>>), <<i>>, vs[i])])

\* Vectors of an index searched directly: the model's answers, one that is
\* farther than <<1, 1>> from <<1, 0>> and scores higher, and one that scores
\* below zero.
IndexedVectors == EmbeddingSpace \cup {<<3, 0>>, <<-1, 0>>}

\* Thresholds in hundredths: below every score, the UI's, between the scores.
MinSimilarities == {-SimScale, AppMinSimilarity, 71}

\* Retrieved documents given to query_llm directly; the third has more
\* content than the prompt takes.
LlmDocs ==
  {("similarity" :> 100) @@ MetadataEntry(OkRecord("u1", <<1>>), <<1>>, <<1, 0>>),
   ("similarity" :> 70) @@ MetadataEntry(OkRecord("u2", <<2>>), <<2>>, <<1, 1>>),
   [url |-> "u3", title |-> "t3", description |-> "d3",
    content |-> [i \in 1..(PromptContentLimit + 1) |-> 3], embedding |-> <<1, 0>>,
    similarity |-> 70]}

\* Tables of the domain as an earlier crawl can have left them.
Tables ==
  {[exists |-> FALSE, rows |-> {}],
   [exists |-> TRUE, rows |-> {}],
   [exists |-> TRUE,
    rows |-> {[url |-> "u1", title |-> "old", description |-> "d", content |-> <<1>>]}]}

\* retrieve_and_rerank called on a built index, or on no index.
InitRerank ==
  /\ scraped = TRUE
  /\ \E built \in {BuiltFrom(vs) : vs \in SeqsUpTo(IndexedVectors, MaxVecs)} :
       /\ index = built.index
       /\ metadata = built.metadata
  /\ table = [exists |-> FALSE, rows |-> {}]
  /\ faiss_file = index
  /\ pc = "call_retrieve"
  /\ scraped_data = <<>>
  /\ pos = NoPos
  /\ embeddings_list = <<>>
  /\ metadata_list = <<>>
  /\ emb = EmbIdle
  /\ call \in {[caller |-> "direct", query_text |-> question, k |-> k, top_n |-> top_n,
                min_similarity |-> min_similarity] :
                 question \in Questions, k \in 1..MaxK, top_n \in 0..MaxTopN,
                 min_similarity \in MinSimilarities}
  /\ reranked = NoReranked
  /\ retrieved_docs = <<>>
  /\ llm = LlmIdle
  /\ hist = NoHist
  /\ arg = None
  /\ ret = None

SpecRerank == InitRerank /\ [][CallRetrieve \/ EmbedFail \/ EmbedOkQuery]_vars

\* fetch_and_store_scraped_data called on a list of page records.
InitBuild ==
  /\ scraped = FALSE
  /\ index = None
  /\ metadata = <<>>
  /\ table = [exists |-> FALSE, rows |-> {}]
  /\ faiss_file \in {None, OldIndex}
  /\ pc = "call_build"
  /\ scraped_data \in SeqsUpTo(PageRecords, MaxPages)
  /\ pos = NoPos
  /\ embeddings_list = <<>>
  /\ metadata_list = <<>>
  /\ emb = EmbIdle
  /\ call = DirectCall
  /\ reranked = NoReranked
  /\ retrieved_docs = <<>>
  /\ llm = LlmIdle
  /\ hist = NoHist
  /\ arg = [before |-> faiss_file]
  /\ ret = None

SpecBuild == InitBuild /\ [][CallBuild \/ EmbedFail \/ EmbedOkBuild]_vars

\* query_llm called on a list of retrieved documents.
InitLlm ==
  /\ scraped = FALSE
  /\ index = None
  /\ metadata = <<>>
  /\ table = [exists |-> FALSE, rows |-> {}]
  /\ faiss_file = None
  /\ pc = "call_llm"
  /\ scraped_data = <<>>
  /\ pos = NoPos
  /\ embeddings_list = <<>>
  /\ metadata_list = <<>>
  /\ emb = EmbIdle
  /\ call \in {[DirectCall EXCEPT !.query_text = question] : question \in Questions}
  /\ reranked = NoReranked
  /\ retrieved_docs \in SeqsUpTo(LlmDocs, MaxDocs)
  /\ llm = LlmIdle
  /\ hist = NoHist
  /\ arg = None
  /\ ret = None

SpecLlm == InitLlm /\ [][CallQueryLlm \/ LlmCall]_vars

\* fetch_sitemap_from_robots called on a site.
InitRobots ==
  /\ scraped = FALSE
  /\ index = None
  /\ metadata = <<>>
  /\ table = [exists |-> FALSE, rows |-> {}]
  /\ faiss_file = None
  /\ pc = "call_robots"
  /\ scraped_data = <<>>
  /\ pos = NoPos
  /\ embeddings_list = <<>>
  /\ metadata_list = <<>>
  /\ emb = EmbIdle
  /\ call = DirectCall
  /\ reranked = NoReranked
  /\ retrieved_docs = <<>>
  /\ llm = LlmIdle
  /\ hist = NoHist
  /\ arg \in {[url |-> url, response |-> response] :
                url \in SiteUrls, response \in RobotsResponses}
  /\ ret = None

SpecRobots == InitRobots /\ [][CallRobots]_vars

\* fetch_sitemap_links called on a list of sitemap URLs.
InitSitemaps ==
  /\ scraped = FALSE
  /\ index = None
  /\ metadata = <<>>
  /\ table = [exists |-> FALSE, rows |-> {}]
  /\ faiss_file = None
  /\ pc = "call_sitemaps"
  /\ scraped_data = <<>>
  /\ pos = NoPos
  /\ embeddings_list = <<>>
  /\ metadata_list = <<>>
  /\ emb = EmbIdle
  /\ call = DirectCall
  /\ reranked = NoReranked
  /\ retrieved_docs = <<>>
  /\ llm = LlmIdle
  /\ hist = NoHist
  /\ arg \in {[responses |-> responses] :
                responses \in SeqsUpTo(SitemapResponses, MaxSitemaps)}
  /\ ret = None

SpecSitemaps == InitSitemaps /\ [][CallSitemapLinks]_vars

\* save_to_postgres called on a scraped batch.
InitSave ==
  /\ scraped = FALSE
  /\ index = None
  /\ metadata = <<>>
  /\ table \in Tables
  /\ faiss_file = None
  /\ pc = "call_save"
  /\ scraped_data \in Batches
  /\ pos = NoPos
  /\ embeddings_list = <<>>
  /\ metadata_list = <<>>
  /\ emb = EmbIdle
  /\ call = DirectCall
  /\ reranked = NoReranked
  /\ retrieved_docs = <<>>
  /\ llm = LlmIdle
  /\ hist = NoHist
  /\ arg \in {[dbUp |-> dbUp, before |-> table] : dbUp \in BOOLEAN}
  /\ ret = None

SpecSave == InitSave /\ [][CallSave]_vars

\* --------------------------------------------------------------- properties
\* The candidates of the last retrieve_and_rerank call in the order of the
\* search output, as positions of the metadata list.
Candidates ==
  LET kept == SelectSeq(reranked.indices, LAMBDA i : i < Len(metadata))
  IN [j \in DOMAIN kept |-> IF kept[j] < 0 THEN Len(metadata) + kept[j] ELSE kept[j]]

\* The scores of the candidates cands by their place, against the query
\* vector of the last call.
ScoresOf(cands) ==
  [j \in DOMAIN cands |-> CosineSimilarity(reranked.q, metadata[cands[j] + 1].embedding)]

\* The places of the candidates that pass the threshold.
PassingOf(score) == {j \in DOMAIN score : score[j] >= call.min_similarity}

\* How many passing candidates come before the j-th in the descending order
\* that keeps equal scores in candidate order.
Rank(passing, score, j) ==
  Cardinality({i \in passing : score[i] > score[j] \/ (score[i] = score[j] /\ i < j)})

\* The places of the passing candidates in that order, cut to top_n.
RerankedPlaces(passing, score) ==
  [r \in 1..Min(call.top_n, Cardinality(passing)) |->
     CHOOSE j \in passing : Rank(passing, score, j) = r - 1]

IsReranked(docs, cands, score, places) ==
  /\ docs = [r \in DOMAIN places |-> cands[places[r]]]
  /\ Len(docs) <= call.top_n
  /\ \A r \in DOMAIN places : score[places[r]] >= call.min_similarity
  /\ \A r \in 1..(Len(places) - 1) : score[places[r]] >= score[places[r + 1]]

\* C1: the list retrieve_and_rerank returns is the candidates in search
\* order, filtered by similarity >= min_similarity, sorted by similarity
\* descending with equal scores in candidate order, cut to the first top_n;
\* so it is sorted by non-increasing similarity, every element scores at
\* least min_similarity and its length is at most top_n.
C1_RerankFilterSortSlice ==
  (pc = "returned" /\ reranked.kind = "return") =>
    \A score \in {ScoresOf(Candidates)} :
      IsReranked(reranked.docs, Candidates, score,
                 RerankedPlaces(PassingOf(score), score))

\* A call returned at least two results that the sort moved out of search
\* order, two of them of equal score at different positions, after the
\* filter dropped a candidate.
C1_Witness ==
  /\ pc = "returned"
  /\ reranked.kind = "return"
  /\ Len(reranked.docs) >= 2
  /\ Cardinality(PassingOf(ScoresOf(Candidates))) < Len(Candidates)
  /\ reranked.docs # SubSeq(Candidates, 1, Len(reranked.docs))
  /\ \E i \in 1..(Len(reranked.docs) - 1) :
       /\ reranked.docs[i] # reranked.docs[i + 1]
       /\ ScoresOf(reranked.docs)[i] = ScoresOf(reranked.docs)[i + 1]

Occurrences(s, x) == Cardinality({i \in DOMAIN s : s[i] = x})

\* C2: only positions p with 0 <= p < len(metadata) that the search returned
\* become candidates, the negative filler is discarded, so no metadata entry
\* is in the result more often than its position is in the search output.
C2_ResultWithinSearchOutput ==
  (pc = "returned" /\ reranked.kind = "return") =>
    \A p \in 0..(Len(metadata) - 1) :
      Occurrences(reranked.docs, p) <= Occurrences(reranked.indices, p)

BuiltKeys == {"url", "title", "description", "content", "embedding"}

\* C3: a query leaves the stored metadata as the build returned it: every
\* entry has exactly the fields url, title, description, content, embedding.
C3_MetadataAsBuilt == \A i \in DOMAIN metadata : DOMAIN metadata[i] = BuiltKeys

\* C4: a question is answered from the index and metadata of the most recent
\* crawl of the session, whatever that crawl's build came to.
C4_QueryUsesLatestCrawl ==
  pc \in {"qembed", "llm"} => hist.indexCrawl = hist.crawls

AllFailed(answers) == \A i \in DOMAIN answers : answers[i] = <<>>

\* C5: get_embeddings makes at most 3 model calls per invocation, returns the
\* vector of the first call that succeeds and calls no more, and raises only
\* after 3 failed calls in a row; a build it raises in sets neither the
\* session's index nor the index file.
C5_EmbeddingRetries ==
  /\ Len(emb.answers) <= 3
  /\ emb.status = "running" => Len(emb.answers) < 3 /\ AllFailed(emb.answers)
  /\ emb.status = "returned" =>
       /\ emb.answers # <<>>
       /\ emb.value # <<>>
       /\ emb.value = emb.answers[Len(emb.answers)]
       /\ AllFailed(SubSeq(emb.answers, 1, Len(emb.answers) - 1))
  /\ emb.status = "raised" => Len(emb.answers) = 3 /\ AllFailed(emb.answers)
  /\ hist.build = "raised" =>
       /\ hist.indexCrawl # hist.crawls
       /\ hist.fileCrawl # hist.crawls
       /\ ~IsNone(index) => hist.indexCrawl > 0

\* A crawl's build raised after three failed calls, in a session whose
\* earlier crawl had built an index.
C5_Witness ==
  /\ pc = "idle"
  /\ hist.build = "raised"
  /\ emb.status = "raised"
  /\ Len(emb.answers) = 3
  /\ ~IsNone(index)

\* The chunks of the records without error and with content, in record order
\* and then chunk order, with the page fields of their record.
RECURSIVE ExpectedEntries(_)
ExpectedEntries(sd) ==
  IF sd = <<>> THEN <<>>
  ELSE LET data == Head(sd)
           pieces == IF "error" \in DOMAIN data \/ "content" \notin DOMAIN data
                     THEN <<>>
                     ELSE SelectSeq(data.content, LAMBDA piece : piece # 0)
       IN [i \in DOMAIN pieces |->
             [url |-> data.url, title |-> data.title,
              description |-> data.description, content |-> <<pieces[i]>>]]
            \o ExpectedEntries(Tail(sd))

\* The build returned an index and metadata that are equally long, hold the
\* expected chunks in order, and whose vectors and stored embeddings are
\* related by same; or nothing when there is no chunk.
IsAligned(r, expected, same(_, _)) ==
  IF expected = <<>>
  THEN IsNone(r.index) /\ r.metadata = <<>>
  ELSE /\ ~IsNone(r.index)
       /\ Len(r.metadata) = Len(r.index.xb)
       /\ Len(r.metadata) = Len(expected)
       /\ \A i \in DOMAIN r.metadata :
            /\ same(r.index.xb[i], r.metadata[i].embedding)
            /\ [k \in RowKeys |-> r.metadata[i][k]] = expected[i]

\* C6 as stated: when fetch_and_store_scraped_data returns an index, the
\* metadata list is as long as the index, the stored embedding of entry i is
\* vector i of the index, and the entries are the chunks of the records
\* without error and with content in record and chunk order; when no chunk is
\* embedded it returns no index and an empty metadata list.
C6_StoredEmbeddingIsIndexVector ==
  (pc = "returned" /\ ret.kind = "return") =>
    IsAligned(ret, ExpectedEntries(scraped_data), LAMBDA vec, stored : vec = stored)

\* C6 as amended: the same, with vector i of the index being the stored
\* embedding of entry i converted to single precision.
C6_MetadataAlignedWithIndex ==
  (pc = "returned" /\ ret.kind = "return") =>
    IsAligned(ret, ExpectedEntries(scraped_data),
              LAMBDA vec, stored : vec = [c \in DOMAIN stored |-> F32(stored[c])])

\* A build returned an index of at least two chunks, one of whose embeddings
\* single precision does not hold, from a batch that also held a record with
\* an error or without content.
C6_Witness ==
  /\ pc = "returned"
  /\ ret.kind = "return"
  /\ ~IsNone(ret.index)
  /\ Len(ret.metadata) >= 2
  /\ \E i \in DOMAIN ret.metadata : ret.metadata[i].embedding # ret.index.xb[i]
  /\ \E i \in DOMAIN scraped_data : ~Indexable(scraped_data[i])

\* C7: in fetch_sitemap_links a sitemap that fails, by the network, by its
\* XML or by a location without text, is skipped alone: the call does not
\* raise and returns the links of the other sitemaps in order.
C7_SitemapFailureIsolated ==
  pc = "returned" =>
    /\ ret.kind = "return"
    /\ ret.value = fetch_sitemap_links(SelectSeq(arg.responses,
                                                 LAMBDA r : ~SitemapRaises(r)))

\* C8: save_to_postgres commits every successfully scraped record of a batch,
\* wherever the error-tagged records sit in it.
C8_ScrapedRecordsCommitted ==
  (pc = "returned" /\ arg.dbUp) =>
    \A i \in DOMAIN scraped_data :
      "error" \notin DOMAIN scraped_data[i] =>
        \E row \in table.rows : row.url = scraped_data[i].url

\* C9: fetch_sitemap_from_robots never aborts: it returns the sitemap URLs of
\* robots.txt that are no compressed archives, or the default sitemap.
C9_RobotsNeverAborts ==
  pc = "returned" =>
    /\ ret.kind = "return"
    /\ ret.value # <<>>
    /\ \A i \in DOMAIN ret.value : ~EndsWith(ret.value[i], GzSuffix)

\* The prompt of the document doc for the question of the running call.
PromptOf(doc) ==
  [query |-> call.query_text, url |-> doc.url, title |-> doc.title,
   description |-> doc.description,
   content |-> SubSeq(doc.content, 1, Min(Len(doc.content), 500))]

=============================================================================
